---- MODULE Spec2Model ----
(***************************************************************************)
(* Model of the eodh-notebook-orchestrator HTTP service: the notebook      *)
(* configuration cache, query-parameter parsing, notebook preparation,     *)
(* the /run/notebook, /view-notebook and /qlr handlers and the QLR         *)
(* template substitution.                                                  *)
(*                                                                         *)
(* Python strings that the code inspects character by character are        *)
(* modelled as sequences of one-character strings; messages and names      *)
(* that are only compared as a whole are TLA+ strings.                     *)
(***************************************************************************)
EXTENDS Integers, Sequences, FiniteSets, TLC

VARIABLES now, ticks, cache, files, returned, uuidCount, resp, cfgCall, run,
          qlrCall, qlrSeen, pIn, pOut

vars == <<now, ticks, cache, files, returned, uuidCount, resp, cfgCall, run,
          qlrCall, qlrSeen, pIn, pOut>>

\* ---------------------------------------------------------------- bounds
MaxTicks == 2
MaxRuns == 2
MaxLen == 7

\* ------------------------------------------------------------- characters
Whitespace == {" "}
Digits == {"0", "1", "2", "4"}
Letters == {"a", "b", "c", "x"}
AlnumChars == Digits \cup Letters

None == "None"

\* HTTP status codes of the responses
HTTP_400_BAD_REQUEST == 400
HTTP_404_NOT_FOUND == 404
HTTP_500_INTERNAL_SERVER_ERROR == 500
HTTP_307_TEMPORARY_REDIRECT == 307
HTTP_200_OK == 200

\* a decoded JSON document: None, or a list of entries
JsonNone == [isNone |-> TRUE, items |-> <<>>]
JsonList(l) == [isNone |-> FALSE, items |-> l]

\* --------------------------------------------------------- str operations
\* str.replace(ch, "")
Remove(s, ch) ==
    LET RECURSIVE Rm(_)
        Rm(t) == IF t = <<>> THEN <<>>
                 ELSE IF Head(t) = ch THEN Rm(Tail(t))
                      ELSE <<Head(t)>> \o Rm(Tail(t))
    IN Rm(s)

\* str.isalnum(): non-empty and every character alphanumeric
IsAlnum(s) == Len(s) > 0 /\ \A i \in 1..Len(s) : s[i] \in AlnumChars

RECURSIVE LStrip(_)
LStrip(s) ==
    IF s = <<>> THEN <<>>
    ELSE IF Head(s) \in Whitespace THEN LStrip(Tail(s)) ELSE s

RECURSIVE RStrip(_)
RStrip(s) ==
    IF s = <<>> THEN <<>>
    ELSE IF s[Len(s)] \in Whitespace THEN RStrip(SubSeq(s, 1, Len(s) - 1))
         ELSE s

\* str.strip()
Strip(s) == RStrip(LStrip(s))

\* str.split(","): always at least one part, empty parts are kept
RECURSIVE Split(_)
Split(s) ==
    IF \A i \in 1..Len(s) : s[i] # ","
    THEN <<s>>
    ELSE LET k == CHOOSE i \in 1..Len(s) :
                      s[i] = "," /\ \A j \in 1..(i - 1) : s[j] # ","
         IN <<SubSeq(s, 1, k - 1)>> \o Split(SubSeq(s, k + 1, Len(s)))

\* Python truthiness of a str
Truthy(s) == s # <<>>

\* ------------------------------------------------------ notebook config
CONFIG_CACHE_DURATION == 300

NoExc == [kind |-> "none", status |-> 0, detail |-> "", arg |-> <<>>]

Exc(kind, status, detail, arg) ==
    [kind |-> kind, status |-> status, detail |-> detail, arg |-> arg]

NoNotebook == [type |-> "none", id |-> <<>>, file |-> None,
               inputSpec |-> [kind |-> "missing", items |-> <<>>]]

\* variant: the boundary age counts as still valid
CacheValidInclusive(c, current_time) ==
    /\ ~c.data.isNone
    /\ current_time - c.timestamp <= CONFIG_CACHE_DURATION

\* the cache is valid when it holds data younger than the cache duration
CacheValid(c, current_time) ==
    /\ ~c.data.isNone
    /\ current_time - c.timestamp < CONFIG_CACHE_DURATION

\* variant: the entry type is not looked at
FindNotebookAnyType(config, notebook_id) ==
    LET hits == {i \in 1..Len(config) : config[i].id = notebook_id}
    IN IF hits = {} THEN NoNotebook
       ELSE config[CHOOSE i \in hits : \A j \in hits : i <= j]

\* next(nb for nb in config if type == "notebook" and id == notebook_id)
FindNotebook(config, notebook_id) ==
    LET hits == {i \in 1..Len(config) :
                    config[i].type = "notebook" /\ config[i].id = notebook_id}
    IN IF hits = {} THEN NoNotebook
       ELSE config[CHOOSE i \in hits : \A j \in hits : i <= j]

\* variant: a failed fetch invalidates the cache
OnFetchFailureClear(c) == [data |-> JsonNone, timestamp |-> 0]

\* the cache after the except branch of the fetch: nothing was assigned
OnFetchFailure(c) == c

\* get_notebook_config: fetch is the outcome the remote server would give
\* ([ok, config]); it is consulted only when the cache is not valid.
GetNotebookConfig(notebook_id, current_time, c, fetch) ==
    LET hit == CacheValid(c, current_time)
        base == [cache |-> c, source |-> "cache", fetches |-> 0,
                 exc |-> NoExc, notebook |-> NoNotebook, config |-> JsonNone]
    IN IF ~hit /\ ~fetch.ok
       THEN [base EXCEPT !.source = "none", !.fetches = 1,
                         !.cache = OnFetchFailure(c),
                         !.exc = Exc("HTTPException", 500,
                                     "Failed to fetch notebook configuration",
                                     <<>>)]
       ELSE LET config == IF hit THEN c.data ELSE fetch.config
                c2 == IF hit THEN c
                      ELSE [data |-> fetch.config, timestamp |-> current_time]
                got == [base EXCEPT !.cache = c2,
                                    !.source = IF hit THEN "cache" ELSE "fetch",
                                    !.fetches = IF hit THEN 0 ELSE 1,
                                    !.config = config]
                notebook == FindNotebook(config.items, notebook_id)
            IN IF ~Truthy(notebook_id)
               THEN [got EXCEPT !.exc =
                        Exc("ValueError", 0,
                            "Notebook ID must be a non-empty string", <<>>)]
               ELSE IF notebook = NoNotebook
               THEN [got EXCEPT !.exc =
                        Exc("ValueError", 0, "Notebook id not found in config.",
                            notebook_id)]
               ELSE [got EXCEPT !.notebook = notebook]

\* ---------------------------------------------------- parse_parameters
\* Python values held by the parameters dict
PyFloat(n) == [kind |-> "float", num |-> n, chars |-> <<>>]
PyStr(s) == [kind |-> "str", num |-> 0, chars |-> s]
PyList(l) == [kind |-> "list", elems |-> l, chars |-> <<>>]
PyText(s) == [kind |-> "str", elems |-> <<>>, chars |-> s]

DigitVal(ch) ==
    CASE ch = "0" -> 0 [] ch = "1" -> 1 [] ch = "2" -> 2 [] ch = "4" -> 4

RECURSIVE DecimalVal(_)
DecimalVal(s) ==
    IF s = <<>> THEN 0
    ELSE 10 * DecimalVal(SubSeq(s, 1, Len(s) - 1)) + DigitVal(s[Len(s)])

\* float(x) on the literals of the model's alphabet: surrounding whitespace
\* is ignored, then an optional sign and at least one digit; anything else
\* is a ValueError
FloatOf(x) ==
    LET t == Strip(x)
        signed == t # <<>> /\ Head(t) \in {"-", "+"}
        body == IF signed THEN Tail(t) ELSE t
        ok == body # <<>> /\ \A i \in 1..Len(body) : body[i] \in Digits
    IN [ok |-> ok,
        val |-> IF ~ok THEN 0
                ELSE IF signed /\ Head(t) = "-" THEN 0 - DecimalVal(body)
                ELSE DecimalVal(body)]

\* variant: the kept entries are not stripped
UrlListNoStrip(value) ==
    LET kept == SelectSeq(Split(value), LAMBDA u : Truthy(Strip(u)))
    IN [i \in 1..Len(kept) |-> PyStr(kept[i])]

\* [url.strip() for url in value.split(",") if url.strip()]
UrlList(value) ==
    LET kept == SelectSeq(Split(value), LAMBDA u : Truthy(Strip(u)))
    IN [i \in 1..Len(kept) |-> PyStr(Strip(kept[i]))]

Continue == [outcome |-> "continue", exc |-> "", val |-> PyText(<<>>)]
Assign(v) == [outcome |-> "set", exc |-> "", val |-> v]
Raise(kind) == [outcome |-> "raise", exc |-> kind, val |-> PyText(<<>>)]

\* the try-body of the loop for one declared parameter that is in the query
ParseBody(param_type, value) ==
    IF param_type = "bbox"
    THEN LET parts == Split(value)
             coords == [i \in 1..Len(parts) |-> PyFloat(FloatOf(parts[i]).val)]
         IN IF \E i \in 1..Len(parts) : ~FloatOf(parts[i]).ok
            THEN Raise("ValueError")
            ELSE IF Len(coords) # 4 THEN Continue
            ELSE Assign(PyList(coords))
    ELSE IF param_type = "urlList"
    THEN IF UrlList(value) = <<>> THEN Continue
         ELSE Assign(PyList(UrlList(value)))
    ELSE IF ~Truthy(Strip(value)) THEN Continue
         ELSE Assign(PyText(Strip(value)))

\* variant: no except clause around the conversion
CatchNothing(o) == o

\* except ValueError: log a warning and continue
CatchValueError(o) ==
    IF o.outcome = "raise" /\ o.exc = "ValueError" THEN Continue ELSE o

\* one iteration of the loop
ParseOne(param_type, value) == CatchValueError(ParseBody(param_type, value))

\* parse_parameters(request, input_spec): query is dict(request.query_params)
ParseParameters(query, input_spec) ==
    LET seen == DOMAIN input_spec \cap DOMAIN query
        kept == {param \in seen :
                    ParseOne(input_spec[param], query[param]).outcome = "set"}
    IN [raised |-> \E param \in seen :
                      ParseOne(input_spec[param], query[param]).outcome = "raise",
        parameters |->
            [param \in kept |-> ParseOne(input_spec[param], query[param]).val]]

\* ------------------------------------------------ get_default_kernel_name
preferred_kernels == <<"python3 (ipykernel)", "python3", "python",
                       "jupyter-python3">>

\* kernel_specs is the ordered key list of get_all_specs(), or the marker
\* <<"raise">> when the kernel spec manager throws
GetDefaultKernelName(kernel_specs) ==
    LET avail == {kernel_specs[i] : i \in 1..Len(kernel_specs)}
        pref == {i \in 1..Len(preferred_kernels) : preferred_kernels[i] \in avail}
    IN IF kernel_specs = <<"raise">> THEN "python3"
       ELSE IF pref # {}
       THEN preferred_kernels[CHOOSE i \in pref : \A j \in pref : i <= j]
       ELSE IF kernel_specs # <<>> THEN kernel_specs[1]
       ELSE "python3"

\* ------------------------------------------------------ execute_notebook
HexChars == <<"0", "1", "2", "a", "b">>

\* str(uuid.uuid4()) of the n-th run: lower-case hex groups joined by "-",
\* distinct for distinct runs
Uuid4(n) == <<HexChars[n + 1], "-", "4", "b">>

\* notebooks_dir / f"{notebook_id}-{output_id}.ipynb" (name inside notebooks/)
OutputPath(notebook_id, output_id) ==
    notebook_id \o <<"-">> \o output_id \o <<".ipynb">>

\* variant: the failed output file is left in place
CleanUpNothing(fs, output_path) == fs

\* the except-branch of execute_notebook: unlink the output file if present
CleanUp(fs, output_path) == fs \ {output_path}

\* pm.execute_notebook(..., prepare_only=True): pm is what papermill does,
\* [wrote |-> whether the output file was written, exc |-> what it raised]
Papermill(fs, output_path, pm) ==
    IF pm.wrote THEN fs \cup {output_path} ELSE fs

ExecuteNotebook(notebook_id, query, current_time, c, fs, n, fetch, kernel_specs, pm) ==
    LET output_id == Uuid4(n)
        output_path == OutputPath(notebook_id, output_id)
        cfg == GetNotebookConfig(notebook_id, current_time, c, fetch)
        notebook == cfg.notebook
        input_spec == IF notebook.inputSpec.kind = "dict"
                      THEN notebook.inputSpec.items ELSE <<>>
        parsed == ParseParameters(query, input_spec)
        parameters == parsed.parameters
        kernel_name == GetDefaultKernelName(kernel_specs)
        fsPm == Papermill(fs, output_path, pm)
        base == [ok |-> FALSE, output_id |-> output_id,
                 output_path |-> output_path, exc |-> NoExc, cfg |-> cfg,
                 step |-> "config", parameters |-> <<>>, kernel |-> "",
                 files |-> fs]
        Fail(step, exc, fsAt) ==
            [base EXCEPT !.step = step, !.exc = exc,
                         !.files = CleanUp(fsAt, output_path)]
    IN IF cfg.exc.kind # "none" THEN Fail("config", cfg.exc, fs)
       ELSE IF notebook.inputSpec.kind = "null"
       THEN Fail("parameters",
                 Exc("AttributeError", 0, "no attribute items", <<>>), fs)
       ELSE IF parsed.raised
       THEN Fail("parameters", Exc("ValueError", 0, "bad parameter", <<>>), fs)
       ELSE IF notebook.file = None
       THEN Fail("file", Exc("KeyError", 0, "file", <<>>), fs)
       ELSE IF pm.exc.kind # "none"
       THEN [Fail("papermill", pm.exc, fsPm)
                EXCEPT !.parameters = parameters, !.kernel = kernel_name]
       ELSE [base EXCEPT !.ok = TRUE, !.step = "done", !.files = fsPm,
                         !.parameters = parameters, !.kernel = kernel_name]

\* --------------------------------------------------------- HTTP handlers

\* notebook_id.replace("-", "").replace("_", "").isalnum()
NotebookIdFormatOk(notebook_id) ==
    IsAlnum(Remove(Remove(notebook_id, "-"), "_"))

\* variant: the dashes of the output id are not removed before isalnum()
OutputIdFormatOkNoDash(output_id) == IsAlnum(output_id)

\* output_id.replace("-", "").isalnum()
OutputIdFormatOk(output_id) == IsAlnum(Remove(output_id, "-"))

\* variant: no separate except clause for ValueError
MapRunExceptionAll500(exc) ==
    [status |-> HTTP_500_INTERNAL_SERVER_ERROR,
     detail |-> "Internal server error", arg |-> <<>>]

\* the except clauses of run_notebook: ValueError -> 404 with its message,
\* every other exception (HTTPException included) -> 500
MapRunException(exc) ==
    IF exc.kind = "ValueError"
    THEN [status |-> HTTP_404_NOT_FOUND, detail |-> exc.detail, arg |-> exc.arg]
    ELSE [status |-> HTTP_500_INTERNAL_SERVER_ERROR,
          detail |-> "Internal server error", arg |-> <<>>]

\* the checks run_notebook makes before calling execute_notebook
RunNotebookPrecheck(notebook_id) ==
    IF ~Truthy(notebook_id) \/ ~Truthy(Strip(notebook_id))
    THEN Exc("HTTPException", HTTP_400_BAD_REQUEST,
             "Notebook ID cannot be empty", <<>>)
    ELSE IF ~NotebookIdFormatOk(notebook_id)
    THEN Exc("HTTPException", HTTP_400_BAD_REQUEST,
             "Invalid notebook ID format", <<>>)
    ELSE NoExc

\* the checks view_notebook makes before building the URL
ViewNotebookPrecheck(notebook_id, output_id) ==
    IF ~Truthy(notebook_id) \/ ~Truthy(output_id)
    THEN Exc("HTTPException", HTTP_400_BAD_REQUEST,
             "Notebook ID and output ID are required", <<>>)
    ELSE IF ~NotebookIdFormatOk(notebook_id)
    THEN Exc("HTTPException", HTTP_400_BAD_REQUEST,
             "Invalid notebook ID format", <<>>)
    ELSE IF ~OutputIdFormatOk(output_id)
    THEN Exc("HTTPException", HTTP_400_BAD_REQUEST,
             "Invalid output ID format", <<>>)
    ELSE NoExc

\* the except clause of view_notebook: every exception -> 500
MapViewException(exc) ==
    [status |-> HTTP_500_INTERNAL_SERVER_ERROR,
     detail |-> "Error generating view URL", arg |-> <<>>]

\* get_view_notebook_url: the file name after {JUPYTER_BASE_URL}/lab/tree/
GetViewNotebookUrl(notebook_id, output_id) ==
    notebook_id \o <<"-">> \o output_id \o <<".ipynb">>

\* ------------------------------------------------------------ create_qlr
\* an Optional value
Some(v) == [isNone |-> FALSE, v |-> v]
Nothing == [isNone |-> TRUE, v |-> 0]

\* os.path.basename(url): what follows the last "/"
RECURSIVE Basename(_)
Basename(url) ==
    IF \A i \in 1..Len(url) : url[i] # "/" THEN url
    ELSE Basename(Tail(url))

\* template_config.json as load_config returns it: collection -> "template"
\* entry (Nothing: the collection has no "template" key)
TemplateConfig ==
    [c \in {<<"s">>, <<"t">>, <<"m">>, <<"k">>} |->
        CASE c = <<"s">> -> Some("s.qlr")
          [] c = <<"t">> -> Some("t.qlr")
          [] c = <<"m">> -> Some("gone.qlr")
          [] c = <<"k">> -> Nothing]

Lit(text) == [lit |-> text, field |-> ""]
Field(name) == [lit |-> "", field |-> name]

\* the template files present in templates/, as the text open().read() gives:
\* literal text and {placeholders}
TemplateFiles ==
    [f \in {"s.qlr", "t.qlr"} |->
        IF f = "s.qlr"
        THEN <<Lit("<qlr id="), Field("layer_id"), Lit(" name="),
               Field("layer_name"), Lit(" src="), Field("datasource"),
               Lit(" extent="), Field("xmin"), Field("ymin"), Field("xmax"),
               Field("ymax"), Lit(" wgs84="), Field("wgs84_xmin"),
               Field("wgs84_ymin"), Field("wgs84_xmax"), Field("wgs84_ymax"),
               Lit(" wkt="), Field("crs_wkt"), Lit(" proj4="),
               Field("crs_proj4"), Lit(" authid=EPSG:"), Field("crs_epsg"),
               Lit("/>")>>
        ELSE <<Lit("<qlr src="), Field("datasource"), Lit(" style="),
               Field("style"), Lit("/>")>>]

Text(t) == [text |-> t, chars |-> <<>>]

\* str.format's rendering of a number: None prints as "None"
Render(o) == IF o.isNone THEN Text("None") ELSE Text(ToString(o.v))

\* str.format's rendering of a str: None prints as "None"
RenderStr(o) == IF o.isNone THEN Text("None") ELSE Text(o.v)

\* variant: the EPSG code is passed to format as it is
EpsgArgRaw(crs_epsg) == Render(crs_epsg)

\* crs_epsg=metadata["crs_epsg"] if metadata["crs_epsg"] is not None else ""
EpsgArg(crs_epsg) == IF crs_epsg.isNone THEN Text("") ELSE Render(crs_epsg)

\* the keyword arguments generate_qlr passes to template.format; the EPSG
\* code is replaced by "" when it is None
FormatArgs(metadata, url, layer_id, layer_name) ==
    [name \in {"datasource", "layer_id", "layer_name", "xmin", "ymin", "xmax",
               "ymax", "wgs84_xmin", "wgs84_ymin", "wgs84_xmax", "wgs84_ymax",
               "crs_wkt", "crs_proj4", "crs_epsg"} |->
        CASE name = "datasource" -> [text |-> "/vsicurl/", chars |-> url]
          [] name = "layer_id" -> [text |-> "", chars |-> layer_id]
          [] name = "layer_name" -> [text |-> "", chars |-> layer_name]
          [] name = "xmin" -> Render(Some(metadata.extent.left))
          [] name = "ymin" -> Render(Some(metadata.extent.bottom))
          [] name = "xmax" -> Render(Some(metadata.extent.right))
          [] name = "ymax" -> Render(Some(metadata.extent.top))
          [] name = "wgs84_xmin" -> Render(Some(metadata.wgs84_extent[1]))
          [] name = "wgs84_ymin" -> Render(Some(metadata.wgs84_extent[2]))
          [] name = "wgs84_xmax" -> Render(Some(metadata.wgs84_extent[3]))
          [] name = "wgs84_ymax" -> Render(Some(metadata.wgs84_extent[4]))
          [] name = "crs_wkt" -> RenderStr(metadata.crs_wkt)
          [] name = "crs_proj4" -> RenderStr(metadata.crs_proj4)
          [] name = "crs_epsg" -> EpsgArg(metadata.crs_epsg)]

\* template.format(**args): a placeholder without an argument is a KeyError
Format(template, args) ==
    IF \E i \in 1..Len(template) :
          template[i].field # "" /\ template[i].field \notin DOMAIN args
    THEN [exc |-> "KeyError", out |-> <<>>]
    ELSE [exc |-> "none",
          out |-> [i \in 1..Len(template) |->
                     IF template[i].field = "" THEN Text(template[i].lit)
                     ELSE args[template[i].field]]]

\* generate_qlr(metadata, url, layer_id, layer_name, template_path):
\* template_path is Nothing or the name of a file in templates/
GenerateQlr(metadata, url, layer_id, layer_name, template_path) ==
    IF template_path.isNone \/ template_path.v \notin DOMAIN TemplateFiles
    THEN [exc |-> Exc("ValueError", 0,
                      "Template path is required and must exist", <<>>),
          qlr |-> <<>>]
    ELSE LET name == IF layer_name.isNone THEN Basename(url) ELSE layer_name.v
             f == Format(TemplateFiles[template_path.v],
                         FormatArgs(metadata, url, layer_id, name))
         IN IF f.exc # "none"
            THEN [exc |-> Exc("ValueError", 0, "Error generating QLR", <<>>),
                  qlr |-> <<>>]
            ELSE [exc |-> NoExc, qlr |-> f.out]

\* get_cog_metadata(url): cog is what rasterio does with the URL; every
\* failure leaves as a ValueError
GetCogMetadata(url, cog) ==
    IF cog.outcome = "RasterioIOError"
    THEN [exc |-> Exc("ValueError", 0, "Invalid or inaccessible COG URL", url),
          metadata |-> cog.metadata]
    ELSE IF cog.outcome # "ok"
    THEN [exc |-> Exc("ValueError", 0, "Error processing COG", <<>>),
          metadata |-> cog.metadata]
    ELSE [exc |-> NoExc, metadata |-> cog.metadata]

\* get_template_path(collection): config["collections"][collection]["template"]
GetTemplatePath(collection) ==
    IF collection \notin DOMAIN TemplateConfig
       \/ TemplateConfig[collection].isNone
    THEN [exc |-> Exc("KeyError", 0, "collection", collection),
          path |-> Nothing]
    ELSE [exc |-> NoExc, path |-> TemplateConfig[collection]]

NoGen == [called |-> FALSE, template_path |-> Nothing, url |-> <<>>,
          layer_id |-> <<>>, layer_name |-> Nothing, epsg |-> Nothing,
          metadata |-> 0, exc |-> NoExc, qlr |-> <<>>]

\* create_qlr(url, collection)
CreateQlr(url, collection, cog) ==
    LET base == [exc |-> NoExc, qlr |-> <<>>, opened |-> FALSE,
                 looked |-> FALSE, gen |-> NoGen]
        md == GetCogMetadata(Strip(url), cog)
        tp == GetTemplatePath(Strip(collection))
        layer_name == Basename(url)
        g == GenerateQlr(md.metadata, url, layer_name, Some(layer_name),
                         tp.path)
    IN IF ~Truthy(url) \/ ~Truthy(collection)
       THEN [base EXCEPT !.exc = Exc("ValueError", 0,
                                     "URL and collection are required", <<>>)]
       ELSE IF ~Truthy(Strip(url))
       THEN [base EXCEPT !.exc = Exc("ValueError", 0,
                                     "URL cannot be empty", <<>>)]
       ELSE IF ~Truthy(Strip(collection))
       THEN [base EXCEPT !.exc = Exc("ValueError", 0,
                                     "Collection cannot be empty", <<>>)]
       ELSE IF md.exc.kind # "none"
       THEN [base EXCEPT !.exc = md.exc, !.opened = TRUE]
       ELSE IF tp.exc.kind # "none"
       THEN [base EXCEPT !.exc = tp.exc, !.opened = TRUE, !.looked = TRUE]
       ELSE [base EXCEPT !.exc = g.exc, !.qlr = g.qlr, !.opened = TRUE,
                         !.looked = TRUE,
                         !.gen = [called |-> TRUE, template_path |-> tp.path,
                                  url |-> url, layer_id |-> layer_name,
                                  layer_name |-> Some(layer_name),
                                  epsg |-> md.metadata.crs_epsg,
                                  metadata |-> cog.id,
                                  exc |-> g.exc, qlr |-> g.qlr]]

\* the except clauses of get_qlr: ValueError -> 400 with its message, every
\* other exception -> 500
MapQlrException(exc) ==
    IF exc.kind = "ValueError"
    THEN [status |-> HTTP_400_BAD_REQUEST, detail |-> exc.detail,
          arg |-> exc.arg]
    ELSE [status |-> HTTP_500_INTERNAL_SERVER_ERROR,
          detail |-> "Internal server error", arg |-> <<>>]

\* ------------------------------------------------------------ environment
\* entries of the remote config.json
SpecA == [kind |-> "dict",
          items |-> [p \in {"bbox", "urls", "name"} |->
                        CASE p = "bbox" -> "bbox"
                          [] p = "urls" -> "urlList"
                          [] p = "name" -> "string"]]
SpecMissing == [kind |-> "missing", items |-> <<>>]
SpecNull == [kind |-> "null", items |-> <<>>]

EntryA == [type |-> "notebook", id |-> <<"a">>, file |-> "a.ipynb",
           inputSpec |-> SpecA]
EntryData == [type |-> "dataset", id |-> <<"b">>, file |-> "b.tif",
              inputSpec |-> SpecMissing]
EntryB == [type |-> "notebook", id |-> <<"b">>, file |-> "b1.ipynb",
           inputSpec |-> SpecMissing]
EntryB2 == [type |-> "notebook", id |-> <<"b">>, file |-> "b2.ipynb",
            inputSpec |-> SpecNull]
EntryC == [type |-> "notebook", id |-> <<"c">>, file |-> None,
           inputSpec |-> SpecMissing]

\* what resp.json() can decode to
RemoteConfigs == {JsonList(<<EntryA, EntryData, EntryB, EntryB2>>),
                  JsonList(<<EntryB2, EntryC, EntryB>>),
                  JsonList(<<>>)}

\* outcomes of requests.get / raise_for_status / json
FetchOutcomes == {[ok |-> FALSE, config |-> JsonNone]}
                 \cup {[ok |-> TRUE, config |-> cfg] : cfg \in RemoteConfigs}

\* path parameters a request can carry (never empty: the route needs a
\* non-empty segment)
NotebookIds == {<<"a">>, <<"b">>, <<"c">>, <<"x", "-", "1", "_">>,
                <<" ">>, <<"a", " ">>, <<"-", "_">>, <<"a", ".">>}

\* the notebook ids GET /view-notebook is asked for
ViewNotebookIds == {<<"a">>, <<" ">>, <<"a", ".">>}

OutputIds == {Uuid4(0), <<"0", "_", "4">>, <<"-">>}

\* dict(request.query_params)
Str4 == <<"1", ",", "2", ",", "-", "1", ",", " ", "0">>
QueryFull == [p \in {"bbox", "urls", "name", "extra"} |->
                CASE p = "bbox" -> Str4
                  [] p = "urls" -> <<" ", "a", ",", ",", "b">>
                  [] p = "name" -> <<" ", "x", " ">>
                  [] p = "extra" -> <<"x">>]
QueryBad == [p \in {"bbox", "urls", "name"} |->
                CASE p = "bbox" -> <<"1", ",", "a", ",", "1", ",", "1">>
                  [] p = "urls" -> <<" ", ",">>
                  [] p = "name" -> <<"b">>]
Queries == {QueryFull, QueryBad}

KernelEnvs == {<<"raise">>, <<"ir", "python">>}

PmOutcomes == {[wrote |-> TRUE, exc |-> NoExc],
               [wrote |-> TRUE,
                exc |-> Exc("PapermillException", 0, "papermill failed", <<>>)],
               [wrote |-> FALSE,
                exc |-> Exc("ValueError", 0, "invalid notebook", <<>>)]}

TickSteps == {1, CONFIG_CACHE_DURATION - 1}

\* ------------------------------------------------------------------ state
NoLocation == [route |-> "", nid |-> <<>>, oid |-> <<>>, file |-> <<>>]
NoResp == [endpoint |-> "none", status |-> 0, detail |-> "", arg |-> <<>>,
           nid |-> <<>>, oid |-> <<>>, location |-> NoLocation]
NoCfgCall == [called |-> FALSE, t |-> 0,
              before |-> [data |-> JsonNone, timestamp |-> 0],
              fetch |-> [ok |-> FALSE, config |-> JsonNone],
              source |-> "none", fetches |-> 0, exc |-> NoExc,
              config |-> JsonNone, notebook_id |-> <<>>,
              notebook |-> NoNotebook]
NoRun == [called |-> FALSE, ok |-> FALSE, notebook_id |-> <<>>,
          output_id |-> <<>>, output_path |-> <<>>, step |-> "",
          exc |-> NoExc, parameters |-> <<>>, kernel |-> ""]
NoQlrCall == [called |-> FALSE, url |-> <<>>, collection |-> <<>>,
              cog |-> "", status |-> 0, detail |-> "", arg |-> <<>>,
              body |-> <<>>, filename |-> <<>>, opened |-> FALSE,
              looked |-> FALSE, gen |-> NoGen]
NoQlrSeen == NoGen
PIdle == [has |-> FALSE, input_spec |-> <<>>, query |-> <<>>]
PNoOut == [has |-> FALSE, raised |-> FALSE, parameters |-> <<>>]

Init ==
    /\ now = 0
    /\ ticks = 0
    /\ cache = [data |-> JsonNone, timestamp |-> 0]
    /\ files = {}
    /\ returned = {}
    /\ uuidCount = 0
    /\ resp = NoResp
    /\ cfgCall = NoCfgCall
    /\ run = NoRun
    /\ qlrCall = NoQlrCall
    /\ qlrSeen = NoQlrSeen
    /\ pIn = PIdle
    /\ pOut = PNoOut

\* time passes between requests
Tick(d) ==
    /\ ticks < MaxTicks
    /\ now' = now + d
    /\ ticks' = ticks + 1
    /\ UNCHANGED <<cache, files, returned, uuidCount, resp, cfgCall, run,
                   qlrCall, qlrSeen, pIn, pOut>>

\* GET /run/notebook/{notebook_id}
RunNotebook(notebook_id, query, fetch, kernel_specs, pm) ==
    LET pre == RunNotebookPrecheck(notebook_id)
        err(exc) == [NoResp EXCEPT !.endpoint = "run", !.nid = notebook_id,
                                   !.status = MapRunException(exc).status,
                                   !.detail = MapRunException(exc).detail,
                                   !.arg = MapRunException(exc).arg]
    IN IF pre.kind # "none"
       THEN /\ resp' = err(pre)
            /\ cfgCall' = NoCfgCall
            /\ run' = NoRun
            /\ UNCHANGED <<cache, files, returned, uuidCount>>
       ELSE /\ uuidCount < MaxRuns
            /\ \E r \in {ExecuteNotebook(Strip(notebook_id), query, now, cache,
                                         files, uuidCount, fetch,
                                         kernel_specs, pm)} :
                /\ uuidCount' = uuidCount + 1
                /\ cache' = r.cfg.cache
                /\ files' = r.files
                /\ returned' = IF r.ok THEN returned \cup {r.output_path}
                               ELSE returned
                /\ cfgCall' = [called |-> TRUE, t |-> now, before |-> cache,
                               fetch |-> IF r.cfg.fetches > 0 THEN fetch
                                         ELSE NoCfgCall.fetch,
                               source |-> r.cfg.source,
                               fetches |-> r.cfg.fetches,
                               exc |-> r.cfg.exc, config |-> r.cfg.config,
                               notebook_id |-> Strip(notebook_id),
                               notebook |-> r.cfg.notebook]
                /\ run' = [called |-> TRUE, ok |-> r.ok,
                           notebook_id |-> Strip(notebook_id),
                           output_id |-> r.output_id,
                           output_path |-> r.output_path, step |-> r.step,
                           exc |-> r.exc, parameters |-> r.parameters,
                           kernel |-> r.kernel]
                /\ resp' = IF r.ok
                           THEN [NoResp EXCEPT
                                   !.endpoint = "run", !.nid = notebook_id,
                                   !.oid = r.output_id,
                                   !.status = HTTP_307_TEMPORARY_REDIRECT,
                                   !.location = [route |-> "/view-notebook",
                                                 nid |-> notebook_id,
                                                 oid |-> r.output_id,
                                                 file |-> <<>>]]
                           ELSE err(r.exc)

\* the inputs of a request are drawn only as far as the handler reads them:
\* the remote server is consulted only on a cache miss, and the query, the
\* kernels and papermill only once the notebook entry is found
RunNotebookStep ==
    /\ \E notebook_id \in NotebookIds :
          LET fetch0 == CHOOSE f \in FetchOutcomes : ~f.ok
              pm0 == CHOOSE o \in PmOutcomes : o.exc.kind = "none"
              ks0 == <<"raise">>
          IN IF RunNotebookPrecheck(notebook_id).kind # "none"
             THEN RunNotebook(notebook_id, <<>>, fetch0, ks0, pm0)
             ELSE \E fetch \in IF CacheValid(cache, now) THEN {fetch0}
                                ELSE FetchOutcomes :
                    LET cfg == GetNotebookConfig(Strip(notebook_id), now,
                                                 cache, fetch)
                    IN IF \/ cfg.exc.kind # "none"
                          \/ cfg.notebook.inputSpec.kind = "null"
                          \/ cfg.notebook.file = None
                       THEN RunNotebook(notebook_id, <<>>, fetch, ks0, pm0)
                       ELSE \E query \in Queries, kernel_specs \in KernelEnvs,
                               pm \in PmOutcomes :
                              RunNotebook(notebook_id, query, fetch,
                                          kernel_specs, pm)
    /\ UNCHANGED <<now, ticks, qlrCall, qlrSeen, pIn, pOut>>

\* the response of GET /view-notebook/{notebook_id}/{output_id}
ViewNotebookResponse(notebook_id, output_id) ==
    LET pre == ViewNotebookPrecheck(notebook_id, output_id)
        base == [NoResp EXCEPT !.endpoint = "view", !.nid = notebook_id,
                               !.oid = output_id]
    IN IF pre.kind # "none"
       THEN [base EXCEPT !.status = MapViewException(pre).status,
                         !.detail = MapViewException(pre).detail]
       ELSE [base EXCEPT !.status = HTTP_307_TEMPORARY_REDIRECT,
                         !.location = [route |-> "/lab/tree", nid |-> <<>>,
                                       oid |-> <<>>,
                                       file |-> GetViewNotebookUrl(notebook_id,
                                                                   output_id)]]

\* GET /view-notebook/{notebook_id}/{output_id}
ViewNotebook(notebook_id, output_id) ==
    /\ resp' = ViewNotebookResponse(notebook_id, output_id)
    /\ cfgCall' = NoCfgCall
    /\ run' = NoRun
    /\ UNCHANGED <<now, ticks, cache, files, returned, uuidCount,
                   qlrCall, qlrSeen, pIn, pOut>>

Next ==
    \/ \E d \in TickSteps : Tick(d)
    \/ RunNotebookStep
    \/ \E notebook_id \in ViewNotebookIds, output_id \in OutputIds :
          ViewNotebook(notebook_id, output_id)

Spec == Init /\ [][Next]_vars

\* ------------------------------------------------------- the /qlr endpoint
\* what rasterio reads from a raster: bounds, reprojected bounds and CRS
MetaEpsg == [extent |-> [left |-> 1, bottom |-> 2, right |-> 3, top |-> 4],
             wgs84_extent |-> <<0, 1, 1, 2>>,
             crs_wkt |-> Some("PROJCS[OSGB36]"),
             crs_proj4 |-> Some("+proj=tmerc"),
             crs_epsg |-> Some(27700)]
MetaNoEpsg == [MetaEpsg EXCEPT !.crs_epsg = Nothing]

\* what opening the URL can lead to
CogOutcomes == {[outcome |-> "ok", id |-> 1, metadata |-> MetaEpsg],
                [outcome |-> "ok", id |-> 2, metadata |-> MetaNoEpsg],
                [outcome |-> "RasterioIOError", id |-> 0, metadata |-> MetaEpsg],
                [outcome |-> "Exception", id |-> 0, metadata |-> MetaEpsg]}

\* the url and collection query parameters of GET /qlr
QlrUrls == {<<>>, <<" ">>, <<"h", "/", "a">>, <<"h", "/", "b", " ">>}
QlrCollections == {<<>>, <<" ">>, <<"s">>, <<" ", "s">>, <<"t">>, <<"m">>,
                   <<"k">>, <<"u">>}

\* GET /qlr?url=...&collection=...; remember says whether this call of
\* generate_qlr is the one kept for comparison with later calls
GetQlr(url, collection, cog, remember) ==
    /\ \E r \in {CreateQlr(url, collection, cog)} :
          /\ qlrCall' =
                [called |-> TRUE, url |-> url, collection |-> collection,
                 cog |-> IF r.opened THEN cog.outcome ELSE "",
                 status |-> IF r.exc.kind = "none" THEN HTTP_200_OK
                            ELSE MapQlrException(r.exc).status,
                 detail |-> IF r.exc.kind = "none" THEN ""
                            ELSE MapQlrException(r.exc).detail,
                 arg |-> IF r.exc.kind = "none" THEN <<>>
                         ELSE MapQlrException(r.exc).arg,
                 body |-> r.qlr,
                 filename |-> IF r.exc.kind = "none"
                              THEN Basename(url) \o <<".qlr">> ELSE <<>>,
                 opened |-> r.opened, looked |-> r.looked, gen |-> r.gen]
          /\ qlrSeen' = IF remember /\ r.gen.called THEN r.gen ELSE qlrSeen
    /\ UNCHANGED <<now, ticks, cache, files, returned, uuidCount, resp,
                   cfgCall, run, pIn, pOut>>

\* the raster is consulted only when the inputs pass the emptiness checks
GetQlrStep ==
    \E url \in QlrUrls, collection \in QlrCollections, remember \in BOOLEAN :
        IF ~Truthy(Strip(url)) \/ ~Truthy(Strip(collection))
        THEN GetQlr(url, collection,
                    CHOOSE c \in CogOutcomes : c.outcome = "Exception",
                    remember)
        ELSE \E cog \in CogOutcomes : GetQlr(url, collection, cog, remember)

QNext ==
    \/ \E d \in TickSteps : Tick(d)
    \/ GetQlrStep

QSpec == Init /\ [][QNext]_vars

\* ------------------------------------------- parse_parameters on its own
\* PSpec applies parse_parameters to one request: parameter "p" carries any
\* string of at most MaxLen characters over PChars, parameter "q" one of a
\* few fixed values; each may be declared or not, present or not.
PChars == {"1", ",", " "}
PValues == UNION {[1..n -> PChars] : n \in 0..MaxLen}
QValues == {<<" ", "b", " ">>, <<" ">>, <<"1", ",", "a", ",", "1", ",", "1">>}
ParamTypes == {"bbox", "urlList", "string"}

Declared(t) == [has |-> TRUE, v |-> t]
Undeclared == [has |-> FALSE, v |-> ""]
Present(v) == [has |-> TRUE, v |-> v]
Absent == [has |-> FALSE, v |-> <<>>]

\* the (query, input_spec) pair of a request
ParseInput(pt, qt, pv, qv) ==
    LET opt(k, a, b) == IF k = "p" THEN a ELSE b
    IN [has |-> TRUE,
        input_spec |-> [k \in {k \in {"p", "q"} : opt(k, pt, qt).has} |->
                          opt(k, pt, qt).v],
        query |-> [k \in {k \in {"p", "q"} : opt(k, pv, qv).has} |->
                     opt(k, pv, qv).v]]

PInit ==
    /\ now = 0
    /\ ticks = 0
    /\ cache = [data |-> JsonNone, timestamp |-> 0]
    /\ files = {}
    /\ returned = {}
    /\ uuidCount = 0
    /\ resp = NoResp
    /\ cfgCall = NoCfgCall
    /\ run = NoRun
    /\ qlrCall = NoQlrCall
    /\ qlrSeen = NoQlrSeen
    /\ \E pt \in {Undeclared} \cup {Declared(t) : t \in ParamTypes},
          qt \in {Undeclared, Declared("string"), Declared("bbox")},
          pv \in {Absent} \cup {Present(v) : v \in PValues},
          qv \in {Absent} \cup {Present(v) : v \in QValues} :
            pIn = ParseInput(pt, qt, pv, qv)
    /\ pOut = PNoOut

\* parse_parameters(request, input_spec)
ParseRequest ==
    /\ ~pOut.has
    /\ \E r \in {ParseParameters(pIn.query, pIn.input_spec)} :
          pOut' = [has |-> TRUE, raised |-> r.raised,
                   parameters |-> r.parameters]
    /\ UNCHANGED <<now, ticks, cache, files, returned, uuidCount, resp,
                   cfgCall, run, qlrCall, qlrSeen, pIn>>

PNext == ParseRequest

PSpec == PInit /\ [][PNext]_vars

\* ======================================================= claims on Spec
\* characters a notebook id may be made of
IdChars == AlnumChars \cup {"-", "_"}
IsBlank(s) == \A i \in 1..Len(s) : s[i] \in Whitespace
HasCharOutside(s, allowed) == \E i \in 1..Len(s) : s[i] \notin allowed

\* C1: a get_notebook_config call at time t is answered from the cache only
\* if cached data exists and t - timestamp < 300; in every other case (the
\* boundary t - timestamp = 300 included) it attempts a fetch, and after a
\* successful fetch the cache holds the fetched list with timestamp t.
C1_CacheExpires ==
    cfgCall.called =>
        LET age == cfgCall.t - cfgCall.before.timestamp
            fresh == ~cfgCall.before.data.isNone /\ age < 300
        IN /\ cfgCall.source = "cache" =>
                /\ fresh
                /\ cfgCall.fetches = 0
                /\ cfgCall.config = cfgCall.before.data
                /\ cache = cfgCall.before
           /\ ~fresh => cfgCall.fetches = 1
           /\ (cfgCall.fetches = 1 /\ cfgCall.fetch.ok) =>
                /\ cfgCall.source = "fetch"
                /\ cfgCall.config = cfgCall.fetch.config
                /\ cache = [data |-> cfgCall.fetch.config,
                            timestamp |-> cfgCall.t]

\* a call made exactly 300 s after the cached data was stored, which fetched
C1_Witness ==
    /\ cfgCall.called
    /\ ~cfgCall.before.data.isNone
    /\ cfgCall.t - cfgCall.before.timestamp = 300
    /\ cfgCall.source = "fetch"

\* C3 (as stated): a /run/notebook request whose notebook_id is blank or has
\* a character other than letters, digits, '-' and '_' is answered with 400
\* and execute_notebook is not called; a /view-notebook request with such a
\* notebook_id, or an output_id with a character other than letters, digits
\* and '-', is answered with 400.
C3_InvalidIdIs400 ==
    /\ (resp.endpoint = "run"
          /\ (IsBlank(resp.nid) \/ HasCharOutside(resp.nid, IdChars)))
        => (resp.status = 400 /\ ~run.called)
    /\ (resp.endpoint = "view"
          /\ (IsBlank(resp.nid) \/ HasCharOutside(resp.nid, IdChars)
              \/ HasCharOutside(resp.oid, AlnumChars \cup {"-"})))
        => resp.status = 400

\* C4: every /run/notebook request ends in a redirect or an HTTP error
\* status; a redirect exactly when execute_notebook returned; a well-formed
\* id matching no notebook entry of the configuration gives 404 with the
\* 'not found in config' message; a failure of execute_notebook that is not
\* a ValueError gives 500 'Internal server error'.
C4_RunErrorsMapped ==
    resp.endpoint = "run" =>
        /\ resp.status \in {307, 400, 404, 500}
        /\ (resp.status = 307) <=> (run.called /\ run.ok)
        /\ ( /\ cfgCall.called
             /\ cfgCall.source # "none"
             /\ ~\E i \in 1..Len(cfgCall.config.items) :
                    /\ cfgCall.config.items[i].type = "notebook"
                    /\ cfgCall.config.items[i].id = resp.nid )
            => /\ resp.status = 404
               /\ resp.detail = "Notebook id not found in config."
               /\ resp.arg = resp.nid
        /\ (run.called /\ ~run.ok /\ run.exc.kind # "ValueError")
            => /\ resp.status = 500
               /\ resp.detail = "Internal server error"

\* a well-formed id that is in no entry of the configuration was asked for
C4_Witness ==
    /\ resp.endpoint = "run"
    /\ resp.status = 404
    /\ cfgCall.called /\ cfgCall.source = "fetch"
    /\ Len(cfgCall.config.items) > 0
    /\ resp.arg = <<"x", "-", "1", "_">>

\* C7: when get_notebook_config needs a fetch and the fetch fails, the call
\* fails with HTTP 500, no configuration (stale or other) is returned, the
\* fetch was attempted once, the cache is exactly as before the call, and a
\* later call still needs the fetch.
C7_FetchFailureNoRecovery ==
    (cfgCall.called /\ cfgCall.fetches > 0 /\ ~cfgCall.fetch.ok) =>
        /\ cfgCall.exc.kind = "HTTPException"
        /\ cfgCall.exc.status = 500
        /\ cfgCall.source = "none"
        /\ cfgCall.config = JsonNone
        /\ cfgCall.fetches = 1
        /\ cache = cfgCall.before
        /\ ~(~cache.data.isNone /\ now - cache.timestamp < 300)
        /\ resp.status = 500
        /\ ~run.ok

\* a fetch failed while expired data was still in the cache
C7_Witness ==
    /\ cfgCall.called
    /\ cfgCall.fetches = 1
    /\ ~cfgCall.fetch.ok
    /\ ~cfgCall.before.data.isNone
    /\ Len(cfgCall.before.data.items) > 0

\* C8: the output file of a failed run does not exist once the error is
\* re-raised, and every output file present belongs to a run that returned
\* its output_id.
C8_NoFileAfterFailure ==
    /\ (run.called /\ ~run.ok) => run.output_path \notin files
    /\ files \subseteq returned

\* papermill wrote the output file and then failed, after an earlier
\* successful run
C8_Witness ==
    /\ run.called
    /\ ~run.ok
    /\ run.step = "papermill"
    /\ run.exc.kind = "PapermillException"
    /\ files # {}

\* C9: after a successful /run/notebook, view_notebook accepts the redirect
\* target and redirects to the file name of the output file that
\* execute_notebook wrote for that run.
C9_RedirectChain ==
    (resp.endpoint = "run" /\ resp.status = 307) =>
        LET v == ViewNotebookResponse(resp.location.nid, resp.location.oid)
        IN /\ resp.location.route = "/view-notebook"
           /\ resp.location.nid = resp.nid
           /\ resp.location.oid = run.output_id
           /\ v.status = 307
           /\ v.location.route = "/lab/tree"
           /\ v.location.file = run.output_path
           /\ run.output_path \in files

\* a run succeeded and redirected to its view URL
C9_Witness ==
    /\ resp.endpoint = "run"
    /\ resp.status = 307
    /\ run.ok
    /\ run.output_path \in files
    /\ uuidCount = MaxRuns

\* entry i of the configuration is a notebook with the asked id
IsNotebookFor(items, i, notebook_id) ==
    items[i].type = "notebook" /\ items[i].id = notebook_id

\* C11: for a non-empty notebook_id, get_notebook_config returns the first
\* entry in list order whose type is 'notebook' and whose id is notebook_id
\* (never an entry of another type), and raises the 'not found in config'
\* ValueError when there is none; the result depends on the list and the id
\* only, not on whether the list came from the cache or from a fetch.
C11_FirstNotebookEntry ==
    (cfgCall.called /\ cfgCall.source # "none" /\ cfgCall.notebook_id # <<>>) =>
        LET items == cfgCall.config.items
            id == cfgCall.notebook_id
        IN IF \E i \in 1..Len(items) : IsNotebookFor(items, i, id)
           THEN /\ cfgCall.exc.kind = "none"
                /\ cfgCall.notebook.type = "notebook"
                /\ cfgCall.notebook.id = id
                /\ \E i \in 1..Len(items) :
                      /\ IsNotebookFor(items, i, id)
                      /\ \A j \in 1..(i - 1) : ~IsNotebookFor(items, j, id)
                      /\ cfgCall.notebook = items[i]
           ELSE /\ cfgCall.exc.kind = "ValueError"
                /\ cfgCall.exc.detail = "Notebook id not found in config."
                /\ cfgCall.exc.arg = id
                /\ cfgCall.notebook = NoNotebook

\* served from the cache, the id matched an earlier entry of another type
\* and two notebook entries; the first notebook entry was returned
C11_Witness ==
    /\ cfgCall.called
    /\ cfgCall.source = "cache"
    /\ cfgCall.notebook_id = <<"b">>
    /\ Len(cfgCall.config.items) = 4
    /\ cfgCall.config.items[2].type = "dataset"
    /\ cfgCall.config.items[2].id = <<"b">>
    /\ cfgCall.notebook = cfgCall.config.items[3]
    /\ cfgCall.config.items[4].id = <<"b">>

\* ====================================================== claims on PSpec
\* the number of comma-separated parts of a value
PartCount(v) == Cardinality({i \in 1..Len(v) : v[i] = ","}) + 1

\* a comma-free part is numeric: an optional sign and digits, possibly
\* surrounded by whitespace
IsNumericPart(part) ==
    \E i, j \in 1..Len(part) :
        /\ i <= j
        /\ \A k \in 1..Len(part) : (k < i \/ k > j) => part[k] \in Whitespace
        /\ part[j] \in Digits
        /\ \A k \in i..j : part[k] \in Digits \/ (k = i /\ part[k] \in {"-", "+"})

\* the comma-free parts of a value, as index ranges
PartRanges(v) ==
    LET cuts == {0, Len(v) + 1} \cup {i \in 1..Len(v) : v[i] = ","}
    IN {<<a, b>> \in cuts \X cuts :
            a < b /\ \A c \in cuts : ~(a < c /\ c < b)}

\* a value is malformed for its declared type
Malformed(param_type, v) ==
    IF param_type = "bbox"
    THEN \/ PartCount(v) # 4
         \/ \E r \in PartRanges(v) : ~IsNumericPart(SubSeq(v, r[1] + 1, r[2] - 1))
    ELSE IF param_type = "urlList"
    THEN \A i \in 1..Len(v) : v[i] \in Whitespace \cup {","}
    ELSE IsBlank(v)

IsTrimmed(t) ==
    t # <<>> /\ t[1] \notin Whitespace /\ t[Len(t)] \notin Whitespace

\* C2: parse_parameters returns without raising; a declared parameter whose
\* query value is malformed is left out, and every declared parameter whose
\* query value is well-formed is returned.
C2_MalformedSkipped ==
    pOut.has =>
        /\ ~pOut.raised
        /\ \A k \in DOMAIN pIn.input_spec \cap DOMAIN pIn.query :
              (k \in DOMAIN pOut.parameters)
                  <=> ~Malformed(pIn.input_spec[k], pIn.query[k])

\* a bbox with a non-numeric part was left out while the well-formed
\* parameter of the same request was returned
C2_Witness ==
    /\ pOut.has
    /\ DOMAIN pIn.input_spec = {"p", "q"}
    /\ pIn.input_spec["p"] = "bbox"
    /\ DOMAIN pIn.query = {"p", "q"}
    /\ pIn.query["p"] = <<"1", ",", " ", ",", "1", ",", "1">>
    /\ DOMAIN pOut.parameters = {"q"}

\* C10: the returned dict has only keys that are declared and present in
\* the query; a bbox value is a list of exactly 4 numbers, a urlList value
\* a non-empty list of non-empty trimmed strings, any other value a
\* non-empty trimmed string.
C10_DeclaredShapes ==
    pOut.has =>
        /\ DOMAIN pOut.parameters
              \subseteq (DOMAIN pIn.input_spec \cap DOMAIN pIn.query)
        /\ \A k \in DOMAIN pOut.parameters :
              LET v == pOut.parameters[k]
                  t == pIn.input_spec[k]
              IN IF t = "bbox"
                 THEN /\ v.kind = "list"
                      /\ Len(v.elems) = 4
                      /\ \A i \in 1..Len(v.elems) :
                            v.elems[i].kind = "float" /\ v.elems[i].num \in Int
                 ELSE IF t = "urlList"
                 THEN /\ v.kind = "list"
                      /\ Len(v.elems) > 0
                      /\ \A i \in 1..Len(v.elems) :
                            /\ v.elems[i].kind = "str"
                            /\ IsTrimmed(v.elems[i].chars)
                 ELSE v.kind = "str" /\ IsTrimmed(v.chars)

\* a urlList with padded entries was returned trimmed, and an undeclared
\* query parameter was dropped
C10_Witness ==
    /\ pOut.has
    /\ DOMAIN pIn.input_spec = {"p"}
    /\ pIn.input_spec["p"] = "urlList"
    /\ DOMAIN pIn.query = {"p", "q"}
    /\ pIn.query["p"] = <<" ", "1", ",", ",", "1", " ">>
    /\ DOMAIN pOut.parameters = {"p"}
    /\ Len(pOut.parameters["p"].elems) = 2

\* ====================================================== claims on QSpec
\* the collection has no usable template: not configured, configured
\* without a template, or its template file is missing
NoUsableTemplate(collection) ==
    \/ Strip(collection) \notin DOMAIN TemplateConfig
    \/ TemplateConfig[Strip(collection)].isNone
    \/ TemplateConfig[Strip(collection)].v \notin DOMAIN TemplateFiles

\* C5 (as stated): every /qlr request ends in an XML response or a mapped
\* error; empty or whitespace-only url or collection, an unreadable COG, a
\* collection with no usable template and a template that cannot be filled
\* are all answered with 400; blank inputs are rejected before the raster
\* is opened or the template looked up.
C5_QlrInvalidInputIs400 ==
    qlrCall.called =>
        /\ qlrCall.status \in {200, 400, 500}
        /\ (IsBlank(qlrCall.url) \/ IsBlank(qlrCall.collection))
            => (qlrCall.status = 400 /\ ~qlrCall.opened /\ ~qlrCall.looked)
        /\ (qlrCall.opened /\ qlrCall.cog # "ok") => qlrCall.status = 400
        /\ (qlrCall.opened /\ qlrCall.cog = "ok"
              /\ NoUsableTemplate(qlrCall.collection))
            => qlrCall.status = 400
        /\ (qlrCall.gen.called /\ qlrCall.gen.exc.kind # "none")
            => qlrCall.status = 400

====
